---- MODULE Spec2Model ----
(***************************************************************************)
(* SimpleTest (src/main.py): the test-series execution engine of           *)
(* TestExecutor.  The Tk main loop is the single presentation thread: each *)
(* action below is one handler run to completion on it (a button command,  *)
(* a menu command, an after() callback), or one step of a worker thread    *)
(* started by run_test.                                                    *)
(*                                                                         *)
(* Handlers are written as operators on a record `self` holding the        *)
(* fields of the TestExecutor object and returning the record after the    *)
(* handler; the field `exc` is TRUE when the handler left by an exception  *)
(* that nothing in it caught (Tk reports it and the main loop goes on;     *)
(* the assignments made before the raise stay).  Indices are 0-based as in *)
(* the program; sequences are 1-based, hence the "+ 1".                    *)
(*                                                                         *)
(* The disk holds a fixed set of series directories and archives; of its   *)
(* files only the user override settings file of each directory is         *)
(* written by the program (override_file).  The widgets, the timer label,  *)
(* the log file, what print writes, and the output and working directories *)
(* that load_settings creates are not part of the model; of the output     *)
(* pane only the last line inserted by a handler is kept.                  *)
(*                                                                         *)
(* Spec is the test runner on the directories Dirs with the window open.   *)
(* The other specifications are the same program with other handlers in    *)
(* use: SpecClosing adds the closing of the window, SpecSeries is the      *)
(* series model alone (opening directories and archives, saving settings), *)
(* SpecChannel adds the plot channel to a run, SpecPolling plot events    *)
(* that cannot be drawn, SpecDispatch runs the series of the directories   *)
(* OtherDirs.                                                              *)
(***************************************************************************)
EXTENDS Integers, Sequences, FiniteSets, TLC

VARIABLES
    attrs,                \* the lazily created attributes of self that exist
    test_directory,       \* self.test_directory: a directory, or None
    lastrun,              \* self.lastrun['test_series_file'] (and .lastrun.yaml)
    settings,             \* self.settings: key -> value or Absent
    test_series,          \* self.test_series: the parsed descriptor
    test_items,           \* self.test_items: the TestListItem list
    selected_test_index,  \* self.selected_test_index: an index, or NoIndex
    current_test_index,   \* self.current_test_index
    is_running_tests,     \* self.is_running_tests
    stop_test_series,     \* self.stop_test_series
    start_time,           \* self.start_time: None or a timestamp
    loaded_modules,       \* self.loaded_modules: the module handles kept by name
    override_file,        \* user_test_settings_override.yaml of each directory
    archive,              \* the archive last chosen in the open dialog, or None
    saves,                \* how many times the settings dialog was saved
    graph_queue,          \* self.graph_queue: the plot events not yet polled
    plotted,              \* the plot events the workers have put, in order
    drawn,                \* the plot events update_graph has drawn, in order
    polling,              \* the timer of check_graph_queue is set
    quit,                 \* master.quit() was called: the main loop has ended
    threads,              \* the live worker threads started by run_test
    after_queue,          \* master.after(0, update_test_result, result, index)
    output_text,          \* the last line inserted in self.output_text
    status_label,         \* the text of the status bar
    run                   \* the log of the current run: its dispatches and reports

vars == <<attrs, test_directory, lastrun, settings, test_series, test_items,
          selected_test_index, current_test_index, is_running_tests,
          stop_test_series, start_time, loaded_modules, override_file, archive,
          saves, graph_queue, plotted, drawn, polling, quit, threads, after_queue,
          output_text, status_label, run>>

-----------------------------------------------------------------------------
(* Bounds and values *)

\* The length of the regular series descriptor of the modelled disk.
MaxLen == 2

\* How many times the settings dialog is saved.
MaxSaves == 1

\* How many plot events the workers put.
MaxEvents == 3

None == "None"
\* selected_test_index = None
NoIndex == -1
Absent == "<absent>"

\* What update_test_result may be given: the documented results, and "other"
\* for any value outside them (another string, None).
Results == {"pass", "softfail", "fail", "done", "other"}

\* What the maintest of the modelled scripts returns.
Outcomes == {"pass", "fail", "other"}

NameOf == <<"A", "B", "C", "D">>
StemOf == <<"a", "b", "c", "d">>

\* A reference or path is the sequence of its dot-separated parts:
\* "a" is <<"a">>, "a.py" is <<"a", "py">>.
Entry(n, f, a) == [keys |-> {"name", "file", "args"}, name |-> n, file |-> f, args |-> a]

\* Entry i of the regular series; every second reference carries ".py".
RegularEntry(i) ==
    Entry(NameOf[i],
          IF i % 2 = 0 THEN <<StemOf[i], "py">> ELSE <<StemOf[i]>>,
          IF i = 1 THEN "arg1" ELSE "{}")

\* The directories a descriptor can be opened from, and the parsed content
\* of test_series.yaml in each.
Dirs == {"good", "short", "broken", "empty", "notests"}

\* Three more directories: "twins" has two entries of one name, "dotted" an
\* entry whose reference is "a.py.py", "unnamed" a second entry without a
\* name.
OtherDirs == {"twins", "dotted", "unnamed"}

\* The archives: "pack.zip" holds a series, "plain.zip" holds no
\* test_series.yaml, "corrupt.zip" is not a zip file.  An accepted archive is
\* copied to the directory TESTS/<name of the archive>.
Archives == {"pack.zip", "plain.zip", "corrupt.zip"}
ExtractedDir == "pack"

AllDirs == Dirs \cup OtherDirs \cup {ExtractedDir}

Descriptor(d) ==
    CASE d = "good"    -> [keys |-> {"tests"}, tests |-> [i \in 1..MaxLen |-> RegularEntry(i)]]
      [] d = "short"   -> [keys |-> {"tests"}, tests |-> <<Entry("A", <<"a">>, "{}")>>]
      [] d = "broken"  -> [keys |-> {"tests"},
                           tests |-> [i \in 1..(MaxLen + 1) |->
                                        IF i = 2 THEN Entry(NameOf[i], <<"bad">>, "{}")
                                        ELSE IF i = MaxLen + 1
                                        THEN [keys |-> {"name"}, name |-> NameOf[i],
                                              file |-> <<>>, args |-> "{}"]
                                        ELSE RegularEntry(i)]]
      [] d = "empty"   -> [keys |-> {"tests"}, tests |-> <<>>]
      [] d = "notests" -> [keys |-> {}, tests |-> <<>>]
      [] d = "twins"   -> [keys |-> {"tests"},
                           tests |-> <<Entry("A", <<"a">>, "arg1"),
                                       Entry("A", <<"b">>, "arg2")>>]
      [] d = "dotted"  -> [keys |-> {"tests"},
                           tests |-> <<Entry("A", <<"a", "py", "py">>, "{}")>>]
      [] d = "unnamed" -> [keys |-> {"tests"},
                           tests |-> <<Entry("A", <<"a">>, "{}"),
                                       [keys |-> {"file", "args"}, name |-> "",
                                        file |-> <<"b">>, args |-> "{}"]>>]
      [] d = ExtractedDir -> [keys |-> {"tests"}, tests |-> <<Entry("A", <<"a">>, "{}")>>]

\* What executing the script at `path` of directory d does: the scripts
\* a.py, b.py, ... exist and define maintest; bad.py raises in its top-level
\* code; "dotted" also has a script a.py.py; no other file exists.
Loadable(d, path) ==
    /\ d \in AllDirs
    /\ \/ /\ Len(path) = 2
          /\ path[2] = "py"
          /\ \E i \in 1..Len(StemOf) : path[1] = StemOf[i]
       \/ d = "dotted" /\ path = <<"a", "py", "py">>

\* The settings files of each directory: test_settings.yaml and, as the
\* program finds it at its start, user_test_settings_override.yaml; each is
\* a map or is missing, and the test_settings.yaml of "dotted" does not parse.
\* A value that is no string carries its type: "int:3" is the integer 3,
\* "bool:True" the boolean True, "Path:WORKING" the Path object.
SettingKeys == {"mode", "retries", "verbose", "output_directory", "working_directory",
                "test_directory"}
NoSettings == [k \in SettingKeys |-> Absent]

BaseSettings(d) ==
    CASE d = "good"   -> [exists |-> TRUE, parses |-> TRUE,
                          map |-> [NoSettings EXCEPT !["mode"] = "fast",
                                                     !["retries"] = "int:3",
                                                     !["verbose"] = "bool:True",
                                                     !["output_directory"] = "out"]]
      [] d = "broken" -> [exists |-> TRUE, parses |-> TRUE,
                          map |-> [NoSettings EXCEPT !["mode"] = "slow",
                                                     !["test_directory"] = "elsewhere"]]
      [] d = "short"  -> [exists |-> FALSE, parses |-> FALSE, map |-> NoSettings]
      [] d = "dotted" -> [exists |-> TRUE, parses |-> FALSE, map |-> NoSettings]
      [] OTHER        -> [exists |-> TRUE, parses |-> TRUE, map |-> NoSettings]

OverrideSettings(d) ==
    CASE d = "good"  -> [exists |-> TRUE,
                         map |-> [NoSettings EXCEPT !["mode"] = "user",
                                                    !["working_directory"] = "work",
                                                    !["test_directory"] = "moved"]]
      [] d = "short" -> [exists |-> TRUE, map |-> [NoSettings EXCEPT !["mode"] = "user"]]
      [] OTHER       -> [exists |-> FALSE, map |-> NoSettings]

\* str(value)
Str(value) ==
    CASE value = "int:3"        -> "3"
      [] value = "bool:True"    -> "True"
      [] value = "bool:False"   -> "False"
      [] value = "Path:WORKING" -> "WORKING"
      [] value = "Path:OUTPUT"  -> "OUTPUT"
      [] OTHER                  -> value

\* isinstance(value, bool)
IsBool(value) == value \in {"bool:True", "bool:False"}

-----------------------------------------------------------------------------
(* The object *)

Self ==
    [attrs |-> attrs, test_directory |-> test_directory, lastrun |-> lastrun,
     settings |-> settings, test_series |-> test_series, test_items |-> test_items,
     selected_test_index |-> selected_test_index,
     current_test_index |-> current_test_index,
     is_running_tests |-> is_running_tests, stop_test_series |-> stop_test_series,
     start_time |-> start_time, loaded_modules |-> loaded_modules, quit |-> quit,
     override_file |-> override_file, archive |-> archive, saves |-> saves,
     graph_queue |-> graph_queue, plotted |-> plotted, drawn |-> drawn,
     polling |-> polling,
     threads |-> threads, after_queue |-> after_queue,
     output_text |-> output_text, status_label |-> status_label,
     modal |-> "none", exc |-> FALSE]

Raise(self) == [self EXCEPT !.exc = TRUE]

\* TestListItem.__init__
TestListItem(test_name, index) ==
    [test_name |-> test_name, index |-> index, status |-> "pending", optional_args |-> "{}"]

\* TestListItem.set_status
set_status(item, status) == [item EXCEPT !.status = status]

-----------------------------------------------------------------------------
(* Series Model: load_settings, load_test_series, set_test_directory *)

\* dict.get(key, default)
Get(map, key, default) == IF map[key] = Absent THEN default ELSE map[key]

\* The keys of `other` added where `map` has none: `map` wins.
UpdateKeepsOld(map, other) ==
    [k \in SettingKeys |-> IF map[k] # Absent THEN map[k] ELSE other[k]]

\* dict.update(other)
Update(map, other) == [k \in SettingKeys |-> IF other[k] # Absent THEN other[k] ELSE map[k]]

\* load_settings assigning the reserved key before the override is applied.
load_settings_reserved_first(self) ==
    LET d    == self.test_directory
        base == BaseSettings(d)
        over == self.override_file[d]
        s1   == IF base.exists /\ base.parses
                THEN [self EXCEPT !.settings = [base.map EXCEPT !["test_directory"] = Absent],
                                  !.attrs = @ \cup {"settings"}]
                ELSE self
    IN  IF "settings" \notin s1.attrs
        THEN Raise(s1)
        ELSE LET m2 == [s1.settings EXCEPT !["test_directory"] = d]
                 m3 == IF over.exists THEN Update(m2, over.map) ELSE m2
             IN  [s1 EXCEPT !.settings =
                     [m3 EXCEPT
                        !["output_directory"] = Get(m3, "output_directory", "Path:WORKING"),
                        !["working_directory"] = Get(m3, "working_directory", "Path:OUTPUT")]]

\* TestExecutor.load_settings; self.test_directory is the directory d.  A base
\* file that does not parse is passed over by the bare except.
load_settings(self) ==
    LET d    == self.test_directory
        base == BaseSettings(d)
        over == self.override_file[d]
        s1   == IF base.exists /\ base.parses
                THEN [self EXCEPT !.settings = [base.map EXCEPT !["test_directory"] = Absent],
                                  !.attrs = @ \cup {"settings"}]
                ELSE self
    IN  IF "settings" \notin s1.attrs
        THEN Raise(s1)
        ELSE LET m2 == IF over.exists THEN Update(s1.settings, over.map) ELSE s1.settings
                 m3 == [m2 EXCEPT
                          !["output_directory"] = Get(m2, "output_directory", "Path:WORKING"),
                          !["working_directory"] = Get(m2, "working_directory", "Path:OUTPUT"),
                          !["test_directory"] = d]
             IN  [s1 EXCEPT !.settings = m3]

\* The TestListItems load_test_series builds from entries 1..n.
ItemsOf(tests, n) ==
    [i \in 1..n |-> [TestListItem(tests[i].name, i - 1) EXCEPT
                        !.optional_args = IF "args" \in tests[i].keys
                                          THEN tests[i].args ELSE "{}"]]

\* TestExecutor.load_test_series
load_test_series(self) ==
    LET parsed == Descriptor(self.test_directory)
        s1 == [self EXCEPT !.test_series = parsed,
                           !.test_items = <<>>,
                           !.attrs = @ \cup {"test_series", "test_items"}]
        unnamed == {i \in 1..Len(parsed.tests) : "name" \notin parsed.tests[i].keys}
        n == IF unnamed = {} THEN Len(parsed.tests)
             ELSE (CHOOSE i \in unnamed : \A j \in unnamed : i <= j) - 1
    IN  IF "tests" \notin parsed.keys
        THEN Raise(s1)
        ELSE LET s2 == [s1 EXCEPT !.test_items = ItemsOf(parsed.tests, n)]
             IN  IF unnamed = {} THEN s2 ELSE Raise(s2)

\* TestExecutor.initialize_test
initialize_test(self) ==
    LET s1 == load_settings(self)
    IN  IF s1.exc THEN s1 ELSE load_test_series(s1)

\* TestExecutor.validate_test_series
validate_test_series(d) == d \in Dirs \cup OtherDirs

\* TestExecutor.clear_module_cache (no entry of sys.modules is named tests.*:
\* run_test registers none)
clear_module_cache(self) == [self EXCEPT !.loaded_modules = {}]

\* zipfile.ZipFile(z).extractall succeeds.
IsZipFile(z) == z # "corrupt.zip"

\* find_test_series_yaml finding a descriptor in the tree of every archive.
find_test_series_yaml_any(z) == ExtractedDir

\* TestExecutor.find_test_series_yaml on the tree extracted from archive z:
\* the directory the descriptor is copied to (TESTS/<zip_name>), or None.
find_test_series_yaml(z) == IF z = "pack.zip" THEN ExtractedDir ELSE None

\* TestExecutor.set_test_directory for the file f chosen in the dialog: an
\* archive, or the descriptor file of the directory f.  The dialog it opens
\* again after a failure is cancelled (choosing a file there is the next
\* open).  An accepted archive replaces the directory it is copied to
\* (rmtree, copytree), the override file in it included.
set_test_directory(self, f) ==
    LET s0  == [clear_module_cache(self) EXCEPT !.test_directory = None]
        dir == IF f \in Archives
               THEN IF IsZipFile(f) THEN find_test_series_yaml(f) ELSE None
               ELSE IF validate_test_series(f) THEN f ELSE None
        s1  == IF f \in Archives
               THEN [s0 EXCEPT !.override_file[dir] = OverrideSettings(dir)]
               ELSE s0
    IN  IF dir = None
        THEN s0
        ELSE LET s2 == initialize_test([s1 EXCEPT !.test_directory = dir])
             IN  IF s2.exc
                 THEN [s2 EXCEPT !.test_directory = None, !.exc = FALSE]
                 ELSE [s2 EXCEPT !.lastrun = f]

\* TestExecutor.open_settings: the entries of the dialog, a BooleanVar for a
\* bool and a StringVar of str(value) for any other value.
open_settings(self) ==
    [k \in SettingKeys |->
        IF self.settings[k] = Absent THEN Absent
        ELSE IF IsBool(self.settings[k]) THEN self.settings[k]
        ELSE Str(self.settings[k])]

\* The entries after the user typed `text` in the field of `key` (no field,
\* no edit; a checkbox is left as it is).
Edited(entries, key, text) ==
    [k \in SettingKeys |->
        IF k = key /\ entries[k] # Absent /\ ~IsBool(entries[k]) THEN text ELSE entries[k]]

\* TestExecutor.save_settings; yaml.dump and yaml.safe_load give a str or a
\* bool back as it was written.
save_settings(self, entries) ==
    IF self.test_directory = None
    THEN Raise(self)
    ELSE [self EXCEPT !.override_file[self.test_directory] =
                          [exists |-> TRUE, map |-> entries],
                      !.settings = Update(@, entries)]

-----------------------------------------------------------------------------
(* Module Loader and dispatch: run_test *)

\* next(test for test in tests if test['name'] == test_name): the position of
\* the first entry of that name; 0 when the search raises (no such entry, or an
\* entry without a name met first).
RECURSIVE FindByName(_, _, _)
FindByName(tests, test_name, i) ==
    IF i > Len(tests) THEN 0
    ELSE IF "name" \notin tests[i].keys THEN 0
    ELSE IF tests[i].name = test_name THEN i
    ELSE FindByName(tests, test_name, i + 1)

\* file[:-3] if file[-3:] == '.py'
StripPy(file) ==
    IF Len(file) > 1 /\ file[Len(file)] = "py" THEN SubSeq(file, 1, Len(file) - 1) ELSE file

\* run_test keeping the module of each script name in self.loaded_modules and
\* executing the file only when the name has no handle yet.
run_test_cached(self, index) ==
    IF "test_items" \notin self.attrs \/ index + 1 > Len(self.test_items)
    THEN Raise(self)
    ELSE
    LET test_item == self.test_items[index + 1]
        s1  == [self EXCEPT !.status_label = "Test running",
                            !.start_time = IF @ = None THEN "now" ELSE @]
        pos == IF "tests" \in self.test_series.keys
               THEN FindByName(self.test_series.tests, test_item.test_name, 1) ELSE 0
    IN  IF pos = 0
        THEN Raise(s1)
        ELSE
        LET s2   == [s1 EXCEPT !.output_text = <<"Running test">>]
            info == self.test_series.tests[pos]
        IN  IF "file" \notin info.keys
            THEN Raise(s2)
            ELSE
            LET file == StripPy(info.file)
                s3   == [s2 EXCEPT !.test_series.tests[pos].file = file]
                path == Append(file, "py")
                kept == {h \in self.loaded_modules : h.name = file}
            IN  IF kept # {}
                THEN [s3 EXCEPT !.threads = Append(@,
                        [index |-> index,
                         module |-> (CHOOSE h \in kept : TRUE).module,
                         args |-> test_item.optional_args])]
                ELSE IF self.test_directory = None \/ ~Loadable(self.test_directory, path)
                THEN Raise(s3)
                ELSE [s3 EXCEPT
                        !.loaded_modules = @ \cup
                            {[name |-> file,
                              module |-> [dir |-> self.test_directory, path |-> path]]},
                        !.threads = Append(@,
                        [index |-> index,
                         module |-> [dir |-> self.test_directory, path |-> path],
                         args |-> test_item.optional_args])]

\* TestExecutor.run_test: exc is set when it raises, a thread is added when it
\* dispatches.  The module is executed from its file at every call
\* (spec_from_file_location, module_from_spec, exec_module) and kept nowhere.
run_test(self, index) ==
    IF "test_items" \notin self.attrs \/ index + 1 > Len(self.test_items)
    THEN Raise(self)
    ELSE
    LET test_item == self.test_items[index + 1]
        s1  == [self EXCEPT !.status_label = "Test running",
                            !.start_time = IF @ = None THEN "now" ELSE @]
        pos == IF "tests" \in self.test_series.keys
               THEN FindByName(self.test_series.tests, test_item.test_name, 1) ELSE 0
    IN  IF pos = 0
        THEN Raise(s1)
        ELSE
        LET s2   == [s1 EXCEPT !.output_text = <<"Running test">>]
            info == self.test_series.tests[pos]
        IN  IF "file" \notin info.keys
            THEN Raise(s2)
            ELSE
            LET file == StripPy(info.file)
                s3   == [s2 EXCEPT !.test_series.tests[pos].file = file]
                path == Append(file, "py")
            IN  IF self.test_directory = None \/ ~Loadable(self.test_directory, path)
                THEN Raise(s3)
                ELSE [s3 EXCEPT !.threads = Append(@,
                        [index |-> index,
                         module |-> [dir |-> self.test_directory, path |-> path],
                         args |-> test_item.optional_args])]

-----------------------------------------------------------------------------
(* Test Runner (Sequencer) *)

\* run_next_test without its try/except.
run_next_test_uncaught(self) ==
    IF "test_items" \notin self.attrs
    THEN Raise(self)
    ELSE IF self.current_test_index < Len(self.test_items)
    THEN run_test(self, self.current_test_index)
    ELSE [self EXCEPT !.output_text = <<"All tests completed.">>,
                      !.is_running_tests = FALSE]

\* TestExecutor.run_next_test
run_next_test(self) ==
    IF "test_items" \notin self.attrs
    THEN Raise(self)
    ELSE IF self.current_test_index < Len(self.test_items)
    THEN LET s1 == run_test(self, self.current_test_index)
         IN  IF s1.exc
             THEN [s1 EXCEPT !.exc = FALSE,
                             !.output_text = <<"Error running test">>,
                             !.is_running_tests = FALSE]
             ELSE s1
    ELSE [self EXCEPT !.output_text = <<"All tests completed.">>,
                      !.is_running_tests = FALSE]

\* run_all_tests without the check of is_running_tests.
run_all_tests_unguarded(self, starting_index) ==
    run_next_test(
        [self EXCEPT !.stop_test_series = FALSE,
                     !.is_running_tests = TRUE,
                     !.current_test_index = starting_index,
                     !.start_time = "now",
                     !.output_text = IF starting_index = 0
                                     THEN <<"Starting new test run">> ELSE @])

\* TestExecutor.run_all_tests
run_all_tests(self, starting_index) ==
    IF ~self.is_running_tests
    THEN run_next_test(
            [self EXCEPT !.stop_test_series = FALSE,
                         !.is_running_tests = TRUE,
                         !.current_test_index = starting_index,
                         !.start_time = "now",
                         !.output_text = IF starting_index = 0
                                         THEN <<"Starting new test run">> ELSE @])
    ELSE self

\* run_selected_test without the implicit stop-after-current.
run_selected_test_no_stop(self) ==
    IF self.selected_test_index # NoIndex /\ ~self.is_running_tests
    THEN LET s1 == [self EXCEPT !.current_test_index = self.selected_test_index,
                                !.is_running_tests = TRUE,
                                !.start_time = "now"]
         IN  IF "test_items" \notin s1.attrs
                \/ s1.current_test_index + 1 > Len(s1.test_items)
             THEN Raise(s1)
             ELSE LET s2 == run_test([s1 EXCEPT !.output_text = <<"Running selected test">>],
                                     s1.current_test_index)
                  IN  IF s2.exc
                      THEN [s2 EXCEPT !.exc = FALSE,
                                      !.output_text = <<"Error running test">>,
                                      !.is_running_tests = FALSE,
                                      !.stop_test_series = FALSE,
                                      !.status_label = "Test error",
                                      !.start_time = None]
                      ELSE s2
    ELSE self

\* TestExecutor.run_selected_test
run_selected_test(self) ==
    IF self.selected_test_index # NoIndex /\ ~self.is_running_tests
    THEN LET s1 == [self EXCEPT !.current_test_index = self.selected_test_index,
                                !.is_running_tests = TRUE,
                                !.start_time = "now"]
         IN  IF "test_items" \notin s1.attrs
                \/ s1.current_test_index + 1 > Len(s1.test_items)
             THEN Raise(s1)
             ELSE LET s2 == run_test([s1 EXCEPT !.output_text = <<"Running selected test">>,
                                                !.stop_test_series = TRUE],
                                     s1.current_test_index)
                  IN  IF s2.exc
                      THEN [s2 EXCEPT !.exc = FALSE,
                                      !.output_text = <<"Error running test">>,
                                      !.is_running_tests = FALSE,
                                      !.stop_test_series = FALSE,
                                      !.status_label = "Test error",
                                      !.start_time = None]
                      ELSE s2
    ELSE self

\* run_selected_test_continue clearing the stop flag before its guard.
run_selected_test_continue_clears_stop(self) ==
    IF self.selected_test_index # NoIndex /\ ~self.is_running_tests
    THEN run_all_tests(
            [self EXCEPT !.stop_test_series = FALSE,
                         !.output_text = <<"Starting new test run from selected test">>],
            self.selected_test_index)
    ELSE [self EXCEPT !.stop_test_series = FALSE]

\* run_selected_test_continue forgetting to pass the starting index.
run_selected_test_continue_from_zero(self) ==
    IF self.selected_test_index # NoIndex /\ ~self.is_running_tests
    THEN run_all_tests(
            [self EXCEPT !.stop_test_series = FALSE,
                         !.output_text = <<"Starting new test run from selected test">>],
            0)
    ELSE self

\* TestExecutor.run_selected_test_continue
run_selected_test_continue(self) ==
    IF self.selected_test_index # NoIndex /\ ~self.is_running_tests
    THEN run_all_tests(
            [self EXCEPT !.stop_test_series = FALSE,
                         !.output_text = <<"Starting new test run from selected test">>],
            self.selected_test_index)
    ELSE self

\* set_stop_test_series flipping the flag.
set_stop_test_series_toggles(self) ==
    IF self.is_running_tests
    THEN [self EXCEPT !.stop_test_series = ~@,
                      !.output_text = <<"Discontinuing test progression">>]
    ELSE self

\* set_stop_test_series without its guard.
set_stop_test_series_unguarded(self) ==
    [self EXCEPT !.stop_test_series = TRUE,
                 !.output_text = <<"Discontinuing test progression">>]

\* set_stop_test_series ending the run at once.
set_stop_test_series_halts(self) ==
    IF self.is_running_tests
    THEN [self EXCEPT !.stop_test_series = TRUE,
                      !.is_running_tests = FALSE,
                      !.output_text = <<"Discontinuing test progression">>]
    ELSE self

\* set_stop_test_series with its guard inverted.
set_stop_test_series_inverted(self) ==
    IF ~self.is_running_tests
    THEN [self EXCEPT !.stop_test_series = TRUE,
                      !.output_text = <<"Discontinuing test progression">>]
    ELSE self

\* TestExecutor.set_stop_test_series
set_stop_test_series(self) ==
    IF self.is_running_tests
    THEN [self EXCEPT !.stop_test_series = TRUE,
                      !.output_text = <<"Discontinuing test progression">>]
    ELSE self

\* TestExecutor.on_closing; `ok` is the answer to "Tests are still running. Do
\* you want to quit?".  After master.quit() mainloop returns and sys.exit()
\* ends the process, the daemon worker threads with it.
on_closing(self, ok) ==
    IF self.is_running_tests
    THEN IF ok
         THEN [self EXCEPT !.is_running_tests = FALSE, !.start_time = None, !.quit = TRUE]
         ELSE self
    ELSE [self EXCEPT !.quit = TRUE]

\* TestExecutor.on_test_select
on_test_select(self, index) ==
    IF self.selected_test_index # NoIndex
       /\ self.selected_test_index + 1 > Len(self.test_items)
    THEN Raise(self)
    ELSE [self EXCEPT !.selected_test_index = index]

-----------------------------------------------------------------------------
(* Result Reporter *)

IsFailTypo(result) == result = "failed"

\* Every result that is not a known good one halts.
IsFailStrict(result) == result \notin {"pass", "softfail", "done"}

\* result == "fail"
IsFail(result) == result = "fail"

NextIndexSkips(i) == i + 2

\* self.current_test_index += 1
NextIndex(i) == i + 1

\* update_test_result looking at the pending stop before the result.
update_test_result_stop_first(self, result, index) ==
    IF index + 1 > Len(self.test_items)
    THEN Raise(self)
    ELSE
    LET s1 == [self EXCEPT !.test_items[index + 1] = set_status(@, result),
                           !.output_text = <<"Test result", result>>]
    IN  IF s1.stop_test_series
        THEN [s1 EXCEPT !.stop_test_series = FALSE,
                        !.is_running_tests = FALSE,
                        !.output_text = <<"Test series stopped.">>,
                        !.status_label = "Test series stopped",
                        !.start_time = None]
        ELSE IF IsFail(result)
        THEN [s1 EXCEPT !.is_running_tests = FALSE,
                        !.status_label = "Test failed",
                        !.start_time = None,
                        !.modal = "Test Failed"]
        ELSE LET s2 == [s1 EXCEPT !.current_test_index = NextIndex(@)]
             IN  IF s2.current_test_index < Len(s2.test_items)
                 THEN run_next_test(s2)
                 ELSE [s2 EXCEPT !.is_running_tests = FALSE,
                                 !.status_label = "All tests completed",
                                 !.start_time = None]

\* TestExecutor.update_test_result
update_test_result(self, result, index) ==
    IF index + 1 > Len(self.test_items)
    THEN Raise(self)
    ELSE
    LET s1 == [self EXCEPT !.test_items[index + 1] = set_status(@, result),
                           !.output_text = <<"Test result", result>>]
    IN  IF IsFail(result)
        THEN [s1 EXCEPT !.is_running_tests = FALSE,
                        !.status_label = "Test failed",
                        !.start_time = None,
                        !.modal = "Test Failed"]
        ELSE IF s1.stop_test_series
        THEN [s1 EXCEPT !.stop_test_series = FALSE,
                        !.is_running_tests = FALSE,
                        !.output_text = <<"Test series stopped.">>,
                        !.status_label = "Test series stopped",
                        !.start_time = None]
        ELSE LET s2 == [s1 EXCEPT !.current_test_index = NextIndex(@)]
             IN  IF s2.current_test_index < Len(s2.test_items)
                 THEN run_next_test(s2)
                 ELSE [s2 EXCEPT !.is_running_tests = FALSE,
                                 !.status_label = "All tests completed",
                                 !.start_time = None]

\* plot_function, the closure run_test hands to maintest: the worker puts the
\* event on the queue.
plot_function(self, event) == [self EXCEPT !.graph_queue = Append(@, event)]

\* A plot event is the number the worker gave it; ax.plot accepts the
\* positive ones and raises on the others (x and y of different lengths, a
\* format string it does not know, ...).
Drawable(event) == event > 0

\* check_graph_queue drawing the newest event and dropping the older ones.
check_graph_queue_newest(self) ==
    IF self.graph_queue = <<>>
    THEN self
    ELSE IF ~Drawable(self.graph_queue[Len(self.graph_queue)])
    THEN Raise([self EXCEPT !.graph_queue = <<>>, !.polling = FALSE])
    ELSE [self EXCEPT !.graph_queue = <<>>,
                      !.drawn = Append(@, self.graph_queue[Len(self.graph_queue)])]

\* TestExecutor.check_graph_queue, one tick of the 100 ms timer: get_nowait
\* takes the oldest event and update_graph draws it; queue.Empty is passed
\* over; the timer is set again.  An exception of update_graph is not
\* queue.Empty: it leaves check_graph_queue before master.after, the event
\* is gone and the timer is not set again.
check_graph_queue(self) ==
    IF self.graph_queue = <<>>
    THEN self
    ELSE IF ~Drawable(Head(self.graph_queue))
    THEN Raise([self EXCEPT !.graph_queue = Tail(@), !.polling = FALSE])
    ELSE [self EXCEPT !.graph_queue = Tail(@),
                      !.drawn = Append(@, Head(self.graph_queue))]

\* TestExecutor.run_test_thread: maintest returns `result` and the thread
\* posts the completion callback, then ends.
run_test_thread(self, k, result) ==
    [self EXCEPT !.threads = SubSeq(@, 1, k - 1) \o SubSeq(@, k + 1, Len(@)),
                 !.after_queue = Append(@, [result |-> result, index |-> self.threads[k].index])]

\* TestExecutor.run_test_thread when maintest raises (or cannot be called):
\* nothing catches it, the thread ends and posts nothing.
run_test_thread_raises(self, k) ==
    [self EXCEPT !.threads = SubSeq(@, 1, k - 1) \o SubSeq(@, k + 1, Len(@))]

-----------------------------------------------------------------------------
(* The state machine *)

NoRun == [kind |-> "none", start |-> NoIndex, dispatched |-> <<>>, reported |-> <<>>,
          refused |-> FALSE]

\* The indices of the threads a handler started, in the order it started them.
Dispatched(s) ==
    [j \in 1..(Len(s.threads) - Len(threads)) |-> s.threads[Len(threads) + j].index]

Init ==
    /\ attrs = {}
    /\ test_directory = None
    /\ lastrun = None
    /\ settings = NoSettings
    /\ test_series = [keys |-> {}, tests |-> <<>>]
    /\ test_items = <<>>
    /\ selected_test_index = NoIndex
    /\ current_test_index = 0
    /\ is_running_tests = FALSE
    /\ stop_test_series = FALSE
    /\ start_time = None
    /\ loaded_modules = {}
    /\ override_file = [d \in AllDirs |-> OverrideSettings(d)]
    /\ archive = None
    /\ saves = 0
    /\ graph_queue = <<>>
    /\ plotted = <<>>
    /\ drawn = <<>>
    /\ polling = TRUE
    /\ quit = FALSE
    /\ threads = <<>>
    /\ after_queue = <<>>
    /\ output_text = <<>>
    /\ status_label = "Ready"
    /\ run = NoRun

\* The object after a handler.
Commit(s) ==
    /\ attrs' = s.attrs
    /\ test_directory' = s.test_directory
    /\ lastrun' = s.lastrun
    /\ settings' = s.settings
    /\ test_series' = s.test_series
    /\ test_items' = s.test_items
    /\ selected_test_index' = s.selected_test_index
    /\ current_test_index' = s.current_test_index
    /\ is_running_tests' = s.is_running_tests
    /\ stop_test_series' = s.stop_test_series
    /\ start_time' = s.start_time
    /\ loaded_modules' = s.loaded_modules
    /\ override_file' = s.override_file
    /\ archive' = s.archive
    /\ saves' = s.saves
    /\ graph_queue' = s.graph_queue
    /\ plotted' = s.plotted
    /\ drawn' = s.drawn
    /\ polling' = s.polling
    /\ quit' = s.quit
    /\ threads' = s.threads
    /\ after_queue' = s.after_queue
    /\ output_text' = s.output_text
    /\ status_label' = s.status_label

\* A run handler `op` invoked: the log starts anew when the handler's guard
\* lets it start a run, and notes a handler refused because a run is going on.
StartRun(s, op, starts) ==
    /\ ~quit
    /\ Commit(s)
    /\ run' = IF starts
              THEN [kind |-> op, start |-> s.current_test_index,
                    dispatched |-> Dispatched(s), reported |-> <<>>, refused |-> FALSE]
              ELSE IF is_running_tests THEN [run EXCEPT !.refused = TRUE]
              ELSE run

\* File > Open Test Series, and the descriptor file of one of `dirs` chosen
\* in the dialog.
OpenSeriesOf(dirs) ==
    \E d \in dirs :
        /\ ~quit
        /\ Commit(set_test_directory(Self, d))
        /\ UNCHANGED run

\* The same on the directories of Spec; "nodir" has no test_series.yaml.
OpenTestSeries == OpenSeriesOf(Dirs \cup {"nodir"})

\* The same on the regular series alone.
OpenRegularSeries == OpenSeriesOf({"good"})

\* The same on the directories OtherDirs.
OpenOtherSeries == OpenSeriesOf(OtherDirs)

\* File > Open Test Series, and an archive chosen in the dialog.
OpenArchive ==
    \E z \in Archives :
        /\ ~quit
        /\ Commit([set_test_directory(Self, z) EXCEPT !.archive = z])
        /\ UNCHANGED run

\* The texts typed in the settings dialog, and the keys whose fields are
\* edited.
EditKeys == {"mode", "retries", "test_directory"}

\* Settings > Edit Settings, at most one field edited, and Save.
SaveSettings ==
    \E key \in EditKeys \cup {"none"} :
        /\ ~quit
        /\ saves < MaxSaves
        /\ "settings" \in attrs
        /\ Commit([save_settings(Self, Edited(open_settings(Self), key, "edited"))
                      EXCEPT !.saves = saves + 1])
        /\ UNCHANGED run

\* A click on the item at `index` of the list.
OnTestSelect ==
    \E index \in 0..(Len(test_items) - 1) :
        /\ ~quit
        /\ Commit(on_test_select(Self, index))
        /\ UNCHANGED run

\* The "Run All" button.
RunAllTests ==
    StartRun(run_all_tests(Self, 0), "run_all_tests", ~is_running_tests)

\* The "Run Selected" button.
RunSelectedTest ==
    StartRun(run_selected_test(Self), "run_selected_test",
             ~is_running_tests /\ selected_test_index # NoIndex)

\* The "Run Selected, Continue" button.
RunSelectedTestContinue ==
    StartRun(run_selected_test_continue(Self), "run_selected_test_continue",
             ~is_running_tests /\ selected_test_index # NoIndex)

\* The "Stop" button; the log notes a press refused because no run is going on.
SetStopTestSeries ==
    /\ ~quit
    /\ Commit(set_stop_test_series(Self))
    /\ run' = IF is_running_tests THEN run ELSE [run EXCEPT !.refused = TRUE]

\* The window is closed (WM_DELETE_WINDOW).
OnClosing ==
    \E ok \in BOOLEAN :
        /\ ~quit
        /\ Commit(on_closing(Self, ok))
        /\ UNCHANGED run

\* The maintest of a worker calls plot_function; the events are numbered in
\* the order they are put.
WorkerPlots ==
    \E k \in 1..Len(threads) :
        /\ Len(plotted) < MaxEvents
        /\ Commit([plot_function(Self, Len(plotted) + 1)
                      EXCEPT !.plotted = Append(plotted, Len(plotted) + 1)])
        /\ UNCHANGED run

\* The maintest of a worker calls plot_function with arguments that ax.plot
\* does not accept.
WorkerPlotsUndrawable ==
    \E k \in 1..Len(threads) :
        /\ Len(plotted) < MaxEvents
        /\ Commit([plot_function(Self, 0 - (Len(plotted) + 1))
                      EXCEPT !.plotted = Append(plotted, 0 - (Len(plotted) + 1))])
        /\ UNCHANGED run

\* The 100 ms timer of check_graph_queue fires.
CheckGraphQueue ==
    /\ ~quit
    /\ polling
    /\ Commit(check_graph_queue(Self))
    /\ UNCHANGED run

\* A worker's maintest returns.
WorkerReturns ==
    \E k \in 1..Len(threads) : \E result \in Outcomes :
        /\ Commit(run_test_thread(Self, k, result))
        /\ UNCHANGED run

\* A worker's maintest raises.
WorkerRaises ==
    \E k \in 1..Len(threads) :
        /\ Commit(run_test_thread_raises(Self, k))
        /\ UNCHANGED run

\* The object after the main loop has run the oldest completion callback.
Reported ==
    update_test_result([Self EXCEPT !.after_queue = Tail(@)],
                       Head(after_queue).result, Head(after_queue).index)

\* The main loop runs the oldest completion callback.
UpdateTestResult ==
    /\ ~quit
    /\ after_queue # <<>>
    /\ Commit(Reported)
    /\ run' = IF Reported.exc THEN run
              ELSE [run EXCEPT !.reported = Append(@, Head(after_queue).index),
                               !.dispatched = @ \o Dispatched(Reported)]

Next ==
    \/ OpenTestSeries
    \/ OnTestSelect
    \/ RunAllTests
    \/ RunSelectedTest
    \/ RunSelectedTestContinue
    \/ SetStopTestSeries
    \/ WorkerReturns
    \/ WorkerRaises
    \/ UpdateTestResult

Spec == Init /\ [][Next]_vars

\* The same program when every maintest returns: the Tk main loop runs every
\* posted callback and every worker thread gets to run.
NextReturning ==
    \/ OpenTestSeries
    \/ OnTestSelect
    \/ RunAllTests
    \/ RunSelectedTest
    \/ RunSelectedTestContinue
    \/ SetStopTestSeries
    \/ WorkerReturns
    \/ UpdateTestResult

SpecReturning ==
    Init /\ [][NextReturning]_vars /\ WF_vars(UpdateTestResult) /\ WF_vars(WorkerReturns)

\* The program to the end of the process: the window may be closed at any
\* time.  After master.quit() no handler runs any more; the workers run on
\* until sys.exit() ends them.
NextClosing ==
    \/ Next
    \/ OnClosing

SpecClosing == Init /\ [][NextClosing]_vars

\* A run with the plot channel in use: the regular series is opened and run
\* from its first test, the workers plot, and the timer polls the queue for as long as
\* the main loop runs.
NextChannel ==
    \/ OpenRegularSeries
    \/ RunAllTests
    \/ WorkerPlots
    \/ CheckGraphQueue
    \/ WorkerReturns
    \/ UpdateTestResult

SpecChannel == Init /\ [][NextChannel]_vars /\ WF_vars(CheckGraphQueue)

\* The same run when a maintest may also plot what ax.plot does not accept.
NextPolling ==
    \/ NextChannel
    \/ WorkerPlotsUndrawable

SpecPolling == Init /\ [][NextPolling]_vars /\ WF_vars(CheckGraphQueue)

\* The series model alone: directories and archives are opened and the
\* settings dialog is saved; no test is run.
NextSeries ==
    \/ OpenTestSeries
    \/ OpenOtherSeries
    \/ OpenArchive
    \/ SaveSettings

SpecSeries == Init /\ [][NextSeries]_vars

\* Dispatching alone, on the directories OtherDirs: a series is opened, items
\* are selected, run one by one or all, and every maintest returns.
NextDispatch ==
    \/ OpenOtherSeries
    \/ OnTestSelect
    \/ RunAllTests
    \/ RunSelectedTest
    \/ WorkerReturns
    \/ UpdateTestResult

SpecDispatch == Init /\ [][NextDispatch]_vars

-----------------------------------------------------------------------------
(* Vocabulary of the properties *)

Idle(s) == ~s.is_running_tests

\* run_test resolves the script of item j of s: the item exists, the descriptor
\* has an entry of its name with a file reference, and the file loads.
Resolvable(s, j) ==
    /\ "test_items" \in s.attrs
    /\ j >= 0
    /\ j + 1 <= Len(s.test_items)
    /\ s.test_directory # None
    /\ "tests" \in s.test_series.keys
    /\ LET pos == FindByName(s.test_series.tests, s.test_items[j + 1].test_name, 1)
       IN  /\ pos # 0
           /\ "file" \in s.test_series.tests[pos].keys
           /\ Loadable(s.test_directory,
                       Append(StripPy(s.test_series.tests[pos].file), "py"))

\* The workers of s are exactly one, executing the test at index j.
OnlyWorker(s, j) == Len(s.threads) = 1 /\ s.threads[1].index = j

\* The handler that gave s started no worker.
NoDispatch(s) == s.threads = threads

\* A completion callback is due for an item of the list.
Due == after_queue # <<>> /\ Head(after_queue).index + 1 <= Len(test_items)

\* The object after the due callback, had the test returned `result`.
ReportedAs(result) ==
    update_test_result([Self EXCEPT !.after_queue = Tail(@)], result,
                       Head(after_queue).index)

\* The handler that gave s caught a dispatch error and ended the run.
RunAborted(s) ==
    /\ Idle(s)
    /\ ~s.exc
    /\ NoDispatch(s)
    /\ s.output_text = <<"Error running test">>

\* s without the output pane.
RunState(s) == [s EXCEPT !.output_text = <<>>]

-----------------------------------------------------------------------------
(* Properties *)

C2_FailHalts ==
    /\ (Due /\ Head(after_queue).result = "fail") =>
          /\ threads = <<>>
          /\ Idle(Reported)
          /\ Reported.modal = "Test Failed"
          /\ Reported.threads = <<>>
          /\ Reported.test_items[Head(after_queue).index + 1].status = "fail"
    /\ (~is_running_tests /\ run.kind # "none" /\ output_text = <<"Test result", "fail">>) =>
          /\ threads = <<>>
          /\ after_queue = <<>>
          /\ run.reported = run.dispatched

\* C2 witness: the first test of a run_all_tests run failed while a stop was
\* pending; the runner is Idle and the second test was never dispatched.
C2_Witness ==
    /\ run.kind = "run_all_tests"
    /\ ~is_running_tests
    /\ output_text = <<"Test result", "fail">>
    /\ stop_test_series
    /\ run.dispatched = <<0>>
    /\ Len(test_items) >= 2
    /\ test_items[1].status = "fail"
    /\ test_items[2].status = "pending"

\* C3: a stop request is accepted while Running and cancels nothing: the
\* worker, the posted callback, the items and the index are as before; the
\* result of the running test is still recorded when it is reported, and with
\* the stop pending that report ends the run without a dispatch, with the
\* message "Test series stopped." unless the result is "fail".
C3_StopIsDeferred ==
    /\ LET s == set_stop_test_series(Self)
       IN  /\ s.threads = threads
           /\ s.after_queue = after_queue
           /\ s.test_items = test_items
           /\ s.current_test_index = current_test_index
           /\ s.is_running_tests = is_running_tests
           /\ is_running_tests => s.stop_test_series
    /\ (Due /\ stop_test_series) =>
          \A result \in Results :
             LET s == ReportedAs(result)
             IN  /\ s.test_items[Head(after_queue).index + 1].status = result
                 /\ Idle(s)
                 /\ NoDispatch(s)
                 /\ result # "fail" => s.output_text = <<"Test series stopped.">>

\* C3 witness: a run_all_tests run was stopped during its first test, which
\* passed; the run ended there and the second test was never dispatched.
C3_Witness ==
    /\ run.kind = "run_all_tests"
    /\ ~is_running_tests
    /\ output_text = <<"Test series stopped.">>
    /\ run.dispatched = <<0>>
    /\ Len(test_items) >= 2
    /\ test_items[1].status = "pass"
    /\ test_items[2].status = "pending"
    /\ threads = <<>>

\* C4: run_selected_test on an Idle runner with a selected item whose script
\* loads dispatches that item alone; the run dispatches nothing else, and the
\* report of the item's result ends the run without a dispatch for every
\* result, whether or not the item is the last one.
C4_RunSelectedRunsOne ==
    /\ (~is_running_tests /\ Resolvable(Self, selected_test_index)) =>
          LET s == run_selected_test(Self)
          IN  s.is_running_tests /\ OnlyWorker(s, selected_test_index)
    /\ run.kind = "run_selected_test" =>
          /\ Len(run.dispatched) <= 1
          /\ \A j \in 1..Len(run.dispatched) : run.dispatched[j] = run.start
          /\ Due => \A result \in Results :
                       Idle(ReportedAs(result)) /\ NoDispatch(ReportedAs(result))

\* C4 witness: the first test of a longer series was run by run_selected_test
\* and returned a result that is not "fail"; the runner is Idle again.
C4_Witness ==
    /\ run.kind = "run_selected_test"
    /\ ~is_running_tests
    /\ run.dispatched = <<0>>
    /\ run.reported = <<0>>
    /\ Len(test_items) >= 2
    /\ test_items[1].status = "other"
    /\ threads = <<>>

\* C5: while Running, run_all_tests, run_selected_test and
\* run_selected_test_continue change nothing at all.
C5_RunHandlersRefuseWhileRunning ==
    is_running_tests =>
        /\ run_all_tests(Self, 0) = Self
        /\ run_selected_test(Self) = Self
        /\ run_selected_test_continue(Self) = Self

\* C5 witness: a run handler was invoked during a run with a test selected and
\* a stop pending, and the stop is still pending.
C5_Witness ==
    /\ is_running_tests
    /\ run.refused
    /\ stop_test_series
    /\ selected_test_index # NoIndex
    /\ Len(threads) = 1

\* C6: at most one worker thread is alive, and none while a completion
\* callback is waiting.
C6_AtMostOneWorker ==
    Len(threads) + Len(after_queue) <= 1

\* C6 witness: a run handler was invoked, and a series opened, while a worker
\* was executing a test.
C6_Witness ==
    /\ Len(threads) = 1
    /\ run.refused
    /\ test_directory # None
    /\ threads[1].module.dir # test_directory

\* C7: when a worker's maintest raises, the error is surfaced: the runner is
\* Idle or a completion callback is posted.
C7_WorkerErrorSurfaced ==
    \A k \in 1..Len(threads) :
        LET s == run_test_thread_raises(Self, k)
        IN  Idle(s) \/ s.after_queue # <<>>

\* C8: an error raised by run_test while a run handler or a report dispatches
\* an item of the list is caught: the handler ends with the runner Idle, no
\* worker started and the error in the output pane.
C8_DispatchErrorEndsRun ==
    /\ (~is_running_tests /\ "test_items" \in attrs /\ 0 < Len(test_items)
          /\ ~Resolvable(Self, 0)) =>
          RunAborted(run_all_tests(Self, 0))
    /\ (~is_running_tests /\ selected_test_index # NoIndex
          /\ selected_test_index < Len(test_items)
          /\ ~Resolvable(Self, selected_test_index)) =>
          /\ RunAborted(run_selected_test(Self))
          /\ RunAborted(run_selected_test_continue(Self))
    /\ (Due /\ Head(after_queue).result # "fail" /\ ~stop_test_series
          /\ current_test_index + 1 < Len(test_items)
          /\ ~Resolvable(Self, current_test_index + 1)) =>
          RunAborted(Reported)

\* C8 witness: a run_all_tests run dispatched its first test and ended on the
\* load error of the second.
C8_Witness ==
    /\ run.kind = "run_all_tests"
    /\ ~is_running_tests
    /\ output_text = <<"Error running test">>
    /\ run.dispatched = <<0>>
    /\ run.reported = <<0>>
    /\ current_test_index = 1
    /\ threads = <<>>

\* C9: every run returns to Idle when every maintest returns and the main
\* loop runs every callback.
C9_EveryRunReturnsToIdle ==
    is_running_tests ~> ~is_running_tests

\* C10: on an Idle runner with a selected item, run_selected_test_continue
\* leaves the object as run_all_tests(starting_index = the selected index)
\* does, the output pane apart: the same worker dispatched and the same flags,
\* index and items.
C10_ContinueIsRunAllFromSelected ==
    (~is_running_tests /\ selected_test_index # NoIndex) =>
        RunState(run_selected_test_continue(Self))
            = RunState(run_all_tests(Self, selected_test_index))

\* C10 witness: a run_selected_test_continue run started at the second item
\* and ran to the end of the series.
C10_Witness ==
    /\ run.kind = "run_selected_test_continue"
    /\ run.start = 1
    /\ run.dispatched = <<1>>
    /\ run.reported = <<1>>
    /\ ~is_running_tests
    /\ status_label = "All tests completed"

\* C11: while Running, set_stop_test_series called twice leaves the object as
\* one call does, and called with a stop already pending it changes nothing
\* of the run (flags, index, items, workers, callbacks); what follows a state
\* depends on the state alone, so any number of calls is followed as one is.
C11_StopIsIdempotent ==
    is_running_tests =>
        LET once  == set_stop_test_series(Self)
            twice == set_stop_test_series(once)
        IN  /\ once.stop_test_series
            /\ twice = once
            /\ stop_test_series => RunState(once) = RunState(Self)

\* C11 witness: a stop request is pending on a run_all_tests run whose first
\* test is still executing: the next press is a repeated one.
C11_Witness ==
    /\ is_running_tests
    /\ stop_test_series
    /\ run.kind = "run_all_tests"
    /\ output_text = <<"Discontinuing test progression">>
    /\ run.dispatched = <<0>>
    /\ OnlyWorker(Self, 0)

\* C12: stop_test_series is false after update_test_result has reported a
\* result, whatever the result, and so it is never true on an Idle runner
\* whose run had a result reported.
C12_StopConsumedAtReport ==
    /\ Due => \A result \in Results : ~ReportedAs(result).stop_test_series
    /\ (~is_running_tests /\ run.reported # <<>>) => ~stop_test_series

\* C13: on an Idle runner set_stop_test_series changes nothing at all, and
\* run_all_tests after it starts the same run as without it, with no stop
\* pending: the first item is dispatched when its script loads.
C13_StopIgnoredWhileIdle ==
    ~is_running_tests =>
        LET s == set_stop_test_series(Self)
        IN  /\ s = Self
            /\ run_all_tests(s, 0) = run_all_tests(Self, 0)
            /\ ~run_all_tests(s, 0).stop_test_series
            /\ Resolvable(Self, 0) => OnlyWorker(run_all_tests(s, 0), 0)

\* C13 witness: Stop was pressed on an Idle runner with a series loaded,
\* before any run.
C13_Witness ==
    /\ ~is_running_tests
    /\ run.kind = "none"
    /\ run.refused
    /\ ~stop_test_series
    /\ Len(test_items) >= 2
    /\ Resolvable(Self, 0)

\* No worker thread is executing and no completion callback is outstanding.
Quiescent == threads = <<>> /\ after_queue = <<>>

\* The step is a run handler starting a run at the index it leaves.
RunStarts ==
    /\ run' # run
    /\ run'.reported = <<>>
    /\ run'.start = current_test_index'

\* C14 as stated: in every reachable state an Idle runner has no worker
\* executing and no completion callback outstanding, and no step between two
\* Idle states changes current_test_index.
C14_IdleIsQuiescent ==
    /\ [](~is_running_tests => Quiescent)
    /\ [][(~is_running_tests /\ ~is_running_tests')
            => current_test_index' = current_test_index]_vars

\* C14, amended: as long as the window has not been closed, an Idle runner
\* has no worker executing and no completion callback outstanding; and a
\* step between two Idle states changes current_test_index only when it is a
\* run handler whose run started and ended within the handler.
C14_IdleIsQuiescentUntilQuit ==
    /\ []((~is_running_tests /\ ~quit) => Quiescent)
    /\ [][(~is_running_tests /\ ~is_running_tests'
              /\ current_test_index' # current_test_index) => RunStarts]_vars

\* C14 witness: a run_all_tests run of a series of two or more tests has run
\* to its end; the runner is Idle, the window open.
C14_Witness ==
    /\ ~is_running_tests
    /\ ~quit
    /\ run.kind = "run_all_tests"
    /\ Len(test_items) >= 2
    /\ Len(run.reported) = Len(test_items)
    /\ current_test_index = Len(test_items)
    /\ status_label = "All tests completed"

\* C15: while a run is going on and a worker is executing, opening a series
\* changes none of self.settings, self.test_items and self.test_series.
C15_SeriesFixedWhileWorkerActive ==
    (is_running_tests /\ threads # <<>>) =>
        \A d \in Dirs \cup {"nodir"} :
            LET s == set_test_directory(Self, d)
            IN  /\ s.settings = settings
                /\ s.test_items = test_items
                /\ s.test_series = test_series

\* The module of the script that the open series names for item j: the file
\* of that name in the open series' directory.
ScriptOf(j) ==
    LET pos == FindByName(test_series.tests, test_items[j + 1].test_name, 1)
    IN  [dir |-> test_directory,
         path |-> Append(StripPy(test_series.tests[pos].file), "py")]

\* Every worker that the handler giving s started executes the script file of
\* its item in the directory open when the handler ran, and the handler kept
\* no module handle.
LoadsFresh(s) ==
    /\ s.loaded_modules = {}
    /\ \A k \in (Len(threads) + 1)..Len(s.threads) :
          s.threads[k].module = ScriptOf(s.threads[k].index)

\* C16: no module handle is kept from one dispatch to another (the registry
\* self.loaded_modules is empty in every state), and every dispatch, by a run
\* handler or by the report of a result, executes the script file of the
\* directory of the series open at that moment.
C16_ModuleLoadedFresh ==
    /\ loaded_modules = {}
    /\ LoadsFresh(run_all_tests(Self, 0))
    /\ LoadsFresh(run_selected_test(Self))
    /\ LoadsFresh(run_selected_test_continue(Self))
    /\ Due => LoadsFresh(Reported)

\* C16 witness: the script a.py of the series "short" is executing, dispatched
\* after a result was already recorded on its item: a.py was dispatched
\* before, from this directory or, the series having been opened during a run
\* of "good", from the directory of that series.
C16_Witness ==
    /\ test_directory = "short"
    /\ is_running_tests
    /\ OnlyWorker(Self, 0)
    /\ threads[1].module = [dir |-> "short", path |-> <<"a", "py">>]
    /\ Len(run.dispatched) = 1
    /\ run.reported = <<>>
    /\ test_items[1].status = "pass"

\* The results a test may return that are none of "pass", "softfail", "fail",
\* "done": another string, or None.
Unrecognized == Results \ {"pass", "softfail", "fail", "done"}

\* The object s left by the report of `result` for the item at `index`, the
\* recorded status and the "Test result" line apart.
Transition(s, result, index) ==
    [s EXCEPT !.test_items[index + 1].status = "",
              !.output_text = IF @ = <<"Test result", result>> THEN <<"Test result">> ELSE @]

Statuses == {"pending", "running", "pass", "softfail", "fail", "done"}

\* C18: in every reachable state the status of every item of the list is one
\* of pending, running, pass, softfail, fail, done.
C18_StatusInEnumeration ==
    \A i \in 1..Len(test_items) : test_items[i].status \in Statuses

\* C19: with a series open, opening a descriptor that has no 'tests' key
\* leaves the items, the descriptor, the settings and the test directory of
\* the open series as they were.
C19_NoTestsDescriptorRejected ==
    (test_directory # None /\ test_items # <<>>) =>
        LET s == set_test_directory(Self, "notests")
        IN  /\ s.test_items = test_items
            /\ s.test_series = test_series
            /\ s.settings = settings
            /\ s.test_directory = test_directory

\* Key k is in the settings file f.
HasKey(f, k) == f.exists /\ f.map[k] # Absent

\* load_settings for directory d, when it returns, gives every key of `keys`
\* that the override file has the override's value, and every key of `keys`
\* that only the base file has the base file's value.
MergedOn(d, keys) ==
    LET s    == load_settings([Self EXCEPT !.test_directory = d])
        base == BaseSettings(d)
        over == override_file[d]
    IN  ~s.exc =>
           \A k \in keys :
              /\ HasKey(over, k) => s.settings[k] = over.map[k]
              /\ (HasKey(base, k) /\ ~HasKey(over, k)) => s.settings[k] = base.map[k]

\* C20 as stated: load_settings gives every key of the override file the
\* override's value and every key that only the base file has the base
\* file's value.
C20_OverrideWinsKeyByKey == \A d \in Dirs : MergedOn(d, SettingKeys)

\* C20, amended: the same for every key but the reserved key
\* 'test_directory', whose value is the open directory whatever the files say.
C20_OverrideWinsButReservedKey ==
    \A d \in Dirs :
        /\ MergedOn(d, SettingKeys \ {"test_directory"})
        /\ LET s == load_settings([Self EXCEPT !.test_directory = d])
           IN  ~s.exc => s.settings["test_directory"] = d

\* C20 witness: the series "good" is open; its settings hold the override's
\* value of the key both files have, the base file's value of the key only
\* the base file has and the override's value of the key only it has.
C20_Witness ==
    /\ test_directory = "good"
    /\ HasKey(BaseSettings("good"), "mode")
    /\ settings["mode"] = override_file["good"].map["mode"]
    /\ settings["mode"] # BaseSettings("good").map["mode"]
    /\ settings["output_directory"] = BaseSettings("good").map["output_directory"]
    /\ ~HasKey(BaseSettings("good"), "working_directory")
    /\ settings["working_directory"] = override_file["good"].map["working_directory"]

\* The directories whose descriptor file can be chosen in the dialog.
Openable == Dirs \cup OtherDirs

\* C21: opening a directory whose base settings file does not parse is not
\* aborted by it, and the settings held before are left as they were (but
\* for the reserved key), also when no settings were held before.
C21_UnparsableBaseFailsSoft ==
    \A d \in Openable :
        (BaseSettings(d).exists /\ ~BaseSettings(d).parses) =>
            LET s == set_test_directory(Self, d)
            IN  /\ s.test_directory = d
                /\ \A k \in SettingKeys \ {"test_directory"} :
                      settings[k] # Absent => s.settings[k] = settings[k]

\* C22: a base settings file with the key 'test_directory' does not make
\* load_settings raise, and when load_settings returns
\* settings['test_directory'] is the directory being opened, whatever the
\* base file and the override file (as found, or as save_settings wrote it)
\* say; it stays so until the settings dialog is saved.
C22_ReservedKeyIsOpenDirectory ==
    /\ \A d \in Openable \cup {ExtractedDir} :
          LET s == load_settings([Self EXCEPT !.test_directory = d])
          IN  /\ (HasKey(BaseSettings(d), "test_directory") /\ BaseSettings(d).parses)
                    => ~s.exc
              /\ ~s.exc => s.settings["test_directory"] = d
    /\ (test_directory # None /\ saves = 0) => settings["test_directory"] = test_directory

\* C22 witness: the dialog was saved with the field of 'test_directory'
\* edited, the override file of "good" holds the edited text, and "good" was
\* opened again.
C22_Witness ==
    /\ test_directory = "good"
    /\ saves = 1
    /\ override_file["good"].map["test_directory"] = "edited"
    /\ settings["test_directory"] = "good"

\* C23: with a series open, saving the settings dialog (at most one field
\* edited) and loading the settings of the same directory again gives every
\* key written the value written, and every key that had the base file's
\* value and was not edited the base file's value.
C23_SettingsRoundTrip ==
    (test_directory # None /\ "settings" \in attrs) =>
        \A key \in EditKeys \cup {"none"} :
            LET entries == Edited(open_settings(Self), key, "edited")
                s       == load_settings(save_settings(Self, entries))
                base    == BaseSettings(test_directory)
            IN  ~s.exc =>
                   \A k \in SettingKeys :
                      /\ (HasKey(base, k) /\ settings[k] = base.map[k] /\ k # key)
                            => s.settings[k] = base.map[k]
                      /\ entries[k] # Absent => s.settings[k] = entries[k]

\* The archive holds a series descriptor.
HoldsSeries(z) == z = "pack.zip"

\* C25: an archive that holds a test_series.yaml is expanded and its series
\* opened from the directory it is copied to; any other archive is rejected:
\* no test directory is set, the last-run record, the items, the descriptor,
\* the settings and the disk are as before.
C25_ArchiveWithoutSeriesRejected ==
    \A z \in Archives :
        LET s == set_test_directory(Self, z)
        IN  IF HoldsSeries(z)
            THEN /\ s.test_directory = ExtractedDir
                 /\ s.test_series = Descriptor(ExtractedDir)
                 /\ s.lastrun = z
            ELSE /\ s.test_directory = None
                 /\ s.lastrun = lastrun
                 /\ s.test_items = test_items
                 /\ s.test_series = test_series
                 /\ s.settings = settings
                 /\ s.override_file = override_file

\* C25 witness: with the series "good" open, an archive without descriptor
\* was chosen: no directory is open, the record and the items are those of
\* "good".
C25_Witness ==
    /\ archive = "plain.zip"
    /\ test_directory = None
    /\ lastrun = "good"
    /\ test_series = Descriptor("good")
    /\ Len(test_items) = MaxLen

\* C24: the events drawn followed by the events waiting in the queue are the
\* events put, in the order they were put: none is lost, none is drawn twice,
\* none overtakes another; a poll of the empty queue changes nothing and
\* raises nothing; and every event put is drawn, the timer polling on.
C24_ChannelFifoLossless ==
    /\ [](drawn \o graph_queue = plotted)
    /\ [](graph_queue = <<>> => check_graph_queue(Self) = Self)
    /\ \A n \in 1..MaxEvents : (Len(plotted) >= n) ~> (Len(drawn) >= n)

\* C24 witness: a worker put three events; the first was drawn while the
\* other two were waiting in the queue.
C24_Witness ==
    /\ plotted = <<1, 2, 3>>
    /\ drawn = <<1>>
    /\ graph_queue = <<2, 3>>

\* The run state of s and the statuses of its items.
RunFields(s) ==
    <<s.is_running_tests, s.stop_test_series, s.current_test_index, s.start_time,
      s.test_items>>

\* C26: a step of a worker thread writes none of is_running_tests,
\* stop_test_series, current_test_index, start_time and the items' statuses,
\* whether it plots or ends; and a worker that ends has posted exactly one
\* completion callback, however its maintest ended.
C26_WorkerOnlyPostsCallback ==
    \A k \in 1..Len(threads) :
        /\ RunFields(plot_function(Self, 1)) = RunFields(Self)
        /\ \A result \in Results :
              LET s == run_test_thread(Self, k, result)
              IN  /\ RunFields(s) = RunFields(Self)
                  /\ Len(s.after_queue) = Len(after_queue) + 1
        /\ LET s == run_test_thread_raises(Self, k)
           IN  /\ RunFields(s) = RunFields(Self)
               /\ Len(s.after_queue) = Len(after_queue) + 1

C30_SelectionIsValid ==
    /\ selected_test_index = NoIndex
          \/ (0 <= selected_test_index /\ selected_test_index < Len(test_items))
    /\ ~is_running_tests =>
          LET s == run_selected_test(Self)
          IN  s.is_running_tests => OnlyWorker(s, selected_test_index)

\* The script that entry i (from 1) of the open descriptor refers to.
ScriptOfEntry(i) ==
    [dir |-> test_directory, path |-> Append(StripPy(test_series.tests[i].file), "py")]

\* The worker that the handler giving s started last.
LastWorker(s) == s.threads[Len(s.threads)]

\* C28: for every index i of the open series, run_test(i), when it
\* dispatches, starts a worker on the script of the i-th entry of the
\* descriptor with the args of the i-th entry, whatever the names of the
\* entries are.
C28_DispatchLoadsIthEntry ==
    Len(test_series.tests) = Len(test_items) =>
        \A i \in 0..(Len(test_items) - 1) :
            LET s == run_test(Self, i)
            IN  ~s.exc =>
                  /\ LastWorker(s).index = i
                  /\ LastWorker(s).module = ScriptOfEntry(i + 1)
                  /\ LastWorker(s).args = test_series.tests[i + 1].args

\* C29: run_test leaves the parsed descriptor as it was, and a second
\* dispatch of the same entry succeeds like the first one and resolves the
\* same script path.
C29_NormalizationStable ==
    \A i \in 0..(Len(test_items) - 1) :
        LET s  == run_test(Self, i)
            s2 == run_test(s, i)
        IN  ~s.exc =>
              /\ s.test_series = test_series
              /\ ~s2.exc
              /\ LastWorker(s2).module = LastWorker(s).module

\* C31: the timer of check_graph_queue is set after every invocation, whether
\* the queue was empty, an event was drawn or drawing it raised; and every
\* event put on the queue is taken from it at some later tick, also after its
\* test was reported.
C31_PollingNeverStops ==
    /\ [](polling /\ check_graph_queue(Self).polling)
    /\ \A n \in 1..MaxEvents :
          (Len(plotted) >= n) ~> (Len(plotted) - Len(graph_queue) >= n)

\* The settings map that the files of directory d and the built-in defaults
\* give: the base file without the reserved key (nothing when it is missing or
\* does not parse), the override file over it, the two default directories
\* where neither file has the key, and the reserved key.
SettingsFrom(d) ==
    LET base == BaseSettings(d)
        over == override_file[d]
        m1   == IF base.exists /\ base.parses
                THEN [base.map EXCEPT !["test_directory"] = Absent] ELSE NoSettings
        m2   == IF over.exists THEN Update(m1, over.map) ELSE m1
    IN  [m2 EXCEPT !["output_directory"] = Get(m2, "output_directory", "Path:WORKING"),
                   !["working_directory"] = Get(m2, "working_directory", "Path:OUTPUT"),
                   !["test_directory"] = d]

\* C32: whatever was open before, after set_test_directory has opened the
\* series of directory d the settings are those that the files of d and the
\* defaults give.
C32_SettingsIndependentOfHistory ==
    \A d \in Dirs \cup OtherDirs :
        LET s == set_test_directory(Self, d)
        IN  s.test_directory = d => s.settings = SettingsFrom(d)

\* C33: the report of a posted result, whatever the result is, sets the
\* status of the item at the index that was dispatched, which is an item of
\* the list, and leaves every other item and the length of the list as they
\* were; and starting a run by any of the three run handlers changes no item.
C33_ReportMarksDispatchedItemOnly ==
    /\ after_queue # <<>> =>
          \A result \in Results :
             LET i == Head(after_queue).index
                 s == ReportedAs(result)
             IN  /\ i + 1 <= Len(test_items)
                 /\ Len(s.test_items) = Len(test_items)
                 /\ s.test_items[i + 1] = set_status(test_items[i + 1], result)
                 /\ \A j \in 1..Len(test_items) :
                       j # i + 1 => s.test_items[j] = test_items[j]
    /\ ~is_running_tests =>
          /\ run_all_tests(Self, 0).test_items = test_items
          /\ run_selected_test(Self).test_items = test_items
          /\ run_selected_test_continue(Self).test_items = test_items

\* The items of s are those of its descriptor: one for each entry, of the
\* entry's name, in the order of the entries.
ItemsMatchDescriptor(s) ==
    /\ Len(s.test_items) = Len(s.test_series.tests)
    /\ \A i \in 1..Len(s.test_items) :
          /\ "name" \in s.test_series.tests[i].keys
          /\ s.test_items[i].test_name = s.test_series.tests[i].name

\* C34: in every state, hence after every load_test_series that
\* set_test_directory called, returned or raised, the items are those of the
\* descriptor held.
C34_ItemsMatchDescriptorAlways == ItemsMatchDescriptor(Self)

\* C35: whenever the runner is Idle, start_time is None.
C35_IdleHasNoStartTime == ~is_running_tests => start_time = None

====
